---- MODULE Spec2Model ----
(***************************************************************************)
(* Model of the algorithm settings registry                                *)
(* (tests/algorithms/algorithm_settings.py), of                            *)
(* MNISTDatasetHparams.initialize_object (composer/datasets/mnist.py) and  *)
(* of ensure_tuple as exercised by tests/utils/test_iter_helpers.py.       *)
(***************************************************************************)
EXTENDS Integers, Sequences, FiniteSets, TLC

VARIABLES
    _settings,  \* the module-level table: class -> Optional[record]
    registry,   \* the live Algorithm subclasses of composer.algorithms, as discovered
    torch,      \* the installed torch version
    call,       \* the last registry call made and its argument
    result,     \* what that call raised or returned
    reads,      \* keys of the settings record the last call subscripted
    heap,       \* number of model/dataset objects constructed so far
    mnist,      \* the last MNISTDatasetHparams.initialize_object call and its effects
    et          \* the last ensure_tuple call: its argument and its result

regvars == <<_settings, registry, torch, call, result, reads, heap>>

(***************************************************************************)
(* Bounds of the model                                                     *)
(***************************************************************************)
MaxRegistry == 2     \* longest enumerated list of discovered subclasses
MaxInstances == 2    \* objects constructed along one behaviour
MaxBatch == 2        \* largest batch_size passed to initialize_object
MaxLen == 3          \* longest string / sequence / dict given to ensure_tuple
MaxElem == 1         \* largest element (or character code) in such a value

(***************************************************************************)
(* Python values                                                           *)
(***************************************************************************)
None == <<>>
Some(v) == <<v>>

\* A class object; alg_cls.__name__ is its name attribute.
Cls(n) == [name |-> n, module |-> "composer.algorithms"]
ClassName(alg_cls) == alg_cls.name

AGC == Cls("AGC")
EMA == Cls("EMA")
SAM == Cls("SAM")
SWA == Cls("SWA")
Alibi == Cls("Alibi")
AugMix == Cls("AugMix")
BlurPool == Cls("BlurPool")
ChannelsLast == Cls("ChannelsLast")
ColOut == Cls("ColOut")
CutMix == Cls("CutMix")
CutOut == Cls("CutOut")
Factorize == Cls("Factorize")
GhostBatchNorm == Cls("GhostBatchNorm")
LabelSmoothing == Cls("LabelSmoothing")
LayerFreezing == Cls("LayerFreezing")
MixUp == Cls("MixUp")
NoOpModel == Cls("NoOpModel")
ProgressiveResizing == Cls("ProgressiveResizing")
RandAugment == Cls("RandAugment")
SelectiveBackprop == Cls("SelectiveBackprop")
SeqLengthWarmup == Cls("SeqLengthWarmup")
SqueezeExcite == Cls("SqueezeExcite")
StochasticDepth == Cls("StochasticDepth")

\* The algorithm classes the settings module imports, in import order.
ImportedAlgorithms ==
    << AGC, EMA, SAM, SWA, Alibi, AugMix, BlurPool, ChannelsLast, ColOut, CutMix,
       CutOut, Factorize, GhostBatchNorm, LabelSmoothing, LayerFreezing, MixUp,
       NoOpModel, ProgressiveResizing, RandAugment, SelectiveBackprop,
       SeqLengthWarmup, SqueezeExcite, StochasticDepth >>

\* A subclass of Algorithm living in composer.algorithms that the settings
\* table does not list (reflection finds whatever subclasses are live).
UnlistedAlgorithm == Cls("UnlistedAlgorithm")

Classes == {ImportedAlgorithms[i] : i \in 1..Len(ImportedAlgorithms)} \cup {UnlistedAlgorithm}

\* An entry of a record is a bare factory or a (factory, kwargs) tuple.
\* Keyword arguments are sets of <<name, repr(value)>> pairs.
Bare(cls) == [is_tuple |-> FALSE, cls |-> cls, kwargs |-> {}]
Tuple(cls, kwargs) == [is_tuple |-> TRUE, cls |-> cls, kwargs |-> kwargs]

simple_vision_settings ==
    [ model   |-> Bare("SimpleConvModel"),
      dataset |-> Bare("RandomImageDataset"),
      kwargs  |-> {} ]

simple_vision_pil_settings ==
    [ model   |-> Bare("SimpleConvModel"),
      dataset |-> Tuple("RandomImageDataset", {<<"is_PIL", "True">>}),
      kwargs  |-> {} ]

simple_resnet_settings ==
    [ model   |-> Tuple("ComposerResNet", {<<"model_name", "resnet18">>, <<"num_classes", "2">>}),
      dataset |-> Tuple("RandomImageDataset", {<<"shape", "(3, 224, 224)">>}),
      kwargs  |-> {} ]

SettingsTable ==
    (AGC :> Some(simple_vision_settings))
 @@ (Alibi :> None)
 @@ (AugMix :> Some(simple_vision_settings))
 @@ (BlurPool :> Some([ model   |-> Bare("SimpleConvModel"),
                        dataset |-> Bare("RandomImageDataset"),
                        kwargs  |-> {<<"min_channels", "0">>} ]))
 @@ (ChannelsLast :> Some(simple_vision_settings))
 @@ (ColOut :> Some(simple_vision_settings))
 @@ (CutMix :> Some([ model   |-> Bare("SimpleConvModel"),
                      dataset |-> Bare("RandomImageDataset"),
                      kwargs  |-> {<<"num_classes", "2">>} ]))
 @@ (CutOut :> Some(simple_vision_settings))
 @@ (EMA :> Some([ model   |-> Bare("SimpleConvModel"),
                   dataset |-> Bare("RandomImageDataset"),
                   kwargs  |-> {<<"half_life", "1ba">>} ]))
 @@ (Factorize :> Some(simple_resnet_settings))
 @@ (GhostBatchNorm :> Some(
        [ model   |-> Tuple("ComposerResNet", {<<"model_name", "resnet18">>, <<"num_classes", "2">>}),
          dataset |-> Tuple("RandomImageDataset", {<<"shape", "(3, 224, 224)">>}),
          kwargs  |-> {<<"ghost_batch_size", "2">>} ]))
 @@ (LabelSmoothing :> Some(simple_vision_settings))
 @@ (LayerFreezing :> Some(simple_vision_settings))
 @@ (MixUp :> Some(simple_vision_settings))
 @@ (ProgressiveResizing :> Some(simple_vision_settings))
 @@ (RandAugment :> Some(simple_vision_settings))
 @@ (NoOpModel :> Some(simple_vision_settings))
 @@ (SAM :> Some(simple_vision_settings))
 @@ (SelectiveBackprop :> Some(simple_vision_settings))
 @@ (SeqLengthWarmup :> None)
 @@ (SqueezeExcite :> Some(simple_resnet_settings))
 @@ (StochasticDepth :> Some(
        [ model   |-> Tuple("ComposerResNet", {<<"model_name", "resnet50">>, <<"num_classes", "2">>}),
          dataset |-> Tuple("RandomImageDataset", {<<"shape", "(3, 224, 224)">>}),
          kwargs  |-> { <<"stochastic_method", "block">>,
                        <<"target_layer_name", "ResNetBottleneck">>,
                        <<"drop_rate", "0.2">>,
                        <<"drop_distribution", "linear">>,
                        <<"drop_warmup", "0.0dur">>,
                        <<"use_same_gpu_seed", "False">> } ]))
 @@ (SWA :> Some([ model   |-> Bare("SimpleConvModel"),
                   dataset |-> Bare("RandomImageDataset"),
                   kwargs  |-> { <<"swa_start", "0.2dur">>,
                                 <<"swa_end", "0.97dur">>,
                                 <<"update_interval", "1ep">>,
                                 <<"schedule_swa_lr", "True">> } ]))

(***************************************************************************)
(* Exceptions and call outcomes                                            *)
(***************************************************************************)
NoException == [type |-> "none", msg |-> <<>>]
ValueError(alg_cls) ==
    [type |-> "ValueError",
     msg  |-> <<"Algorithm ", ClassName(alg_cls), " not in the settings dictionary.">>]
KeyError(alg_cls) == [type |-> "KeyError", msg |-> <<ClassName(alg_cls)>>]
Skipped(reason) == [type |-> "Skipped", msg |-> <<reason>>]
\* Subscripting None: 'NoneType' object is not subscriptable.
TypeError == [type |-> "TypeError", msg |-> <<"'NoneType' object is not subscriptable">>]

NoResult ==
    [raised |-> NoException, settings |-> None, kwargs |-> None,
     instance |-> None, params |-> <<>>]
Raise(exc) == [NoResult EXCEPT !.raised = exc]

NoCall == [op |-> "none", alg |-> None]
LookupCall(name, alg_cls) == [NoCall EXCEPT !.op = name, !.alg = Some(alg_cls)]

(***************************************************************************)
(* The lookups                                                             *)
(***************************************************************************)
\* _get_alg_settings without its None test: the record, or None, comes back.
_get_alg_settings_no_none_check(alg_cls) ==
    IF alg_cls \notin DOMAIN _settings
    THEN Raise(ValueError(alg_cls))
    ELSE [NoResult EXCEPT !.settings = _settings[alg_cls]]

_get_alg_settings(alg_cls) ==
    IF alg_cls \notin DOMAIN _settings \/ _settings[alg_cls] = None
    THEN Raise(ValueError(alg_cls))
    ELSE LET settings == _settings[alg_cls]
         IN  [NoResult EXCEPT !.settings = settings]

get_alg_kwargs(alg_cls) ==
    LET got == _get_alg_settings(alg_cls)
    IN  IF got.raised # NoException
        THEN [res |-> got, reads |-> {}]
        ELSE IF got.settings = None
        THEN [res |-> Raise(TypeError), reads |-> {}]
        ELSE [res |-> [NoResult EXCEPT !.kwargs = Some(got.settings[1].kwargs)],
              reads |-> {"kwargs"}]

\* isinstance(settings, tuple) splits (cls, kwargs); a bare factory gets {}.
Normalise(settings) ==
    IF settings.is_tuple
    THEN <<settings.cls, settings.kwargs>>
    ELSE <<settings.cls, {}>>

\* cls(**kwargs): a new object, told apart from every earlier one by its id.
Construct(cls, kwargs, id) == [cls |-> cls, kwargs |-> kwargs, id |-> id]

\* The body shared by get_alg_model and get_alg_dataset, on entry `key`.
GetAlgEntry(alg_cls, key) ==
    LET got == _get_alg_settings(alg_cls)
    IN  IF got.raised # NoException
        THEN [res |-> got, reads |-> {}]
        ELSE IF got.settings = None
        THEN [res |-> Raise(TypeError), reads |-> {}]
        ELSE LET settings == got.settings[1][key]
                 pair == Normalise(settings)
             IN  [res |-> [NoResult EXCEPT
                             !.instance = Some(Construct(pair[1], pair[2], heap + 1))],
                  reads |-> {key}]

\* get_alg_model subscripting the wrong entry of the record.
get_alg_model_wrong_entry(alg_cls) == GetAlgEntry(alg_cls, "dataset")

get_alg_model(alg_cls) == GetAlgEntry(alg_cls, "model")

get_alg_dataset(alg_cls) == GetAlgEntry(alg_cls, "dataset")

(***************************************************************************)
(* get_algs_with_marks                                                     *)
(***************************************************************************)
\* Versions are compared component-wise (packaging.version), as <<major, minor>>.
MinTorchVersion == <<1, 10>>
TorchVersions == {<<1, 9>>, <<1, 10>>, <<2, 0>>}
VersionLess(a, b) == a[1] < b[1] \/ (a[1] = b[1] /\ a[2] < b[2])

\* pytest.importorskip("torch", minversion=...): raises Skipped out of the
\* caller when the installed version is older, returns otherwise.
ImportOrSkip(installed, minversion) ==
    IF VersionLess(installed, minversion)
    THEN Skipped("Pytorch 1.10 required.")
    ELSE NoException

NeedsTorchVersion(alg_cls) == alg_cls \in {CutMix, MixUp, LabelSmoothing}

FilterWarnings(pattern) == [name |-> "filterwarnings", args |-> <<pattern>>]
Xfail(alg_cls) ==
    [name |-> "xfail",
     args |-> <<"Algorithm ", ClassName(alg_cls), " is missing settings.">>]

\* The filter pattern, with the backquotes around the two calls left out.
SWAWarning ==
    "ignore:Detected call of lr_scheduler.step\\(\\) before optimizer.step\\(\\):UserWarning"
MixUpWarning == "ignore:Some targets have less than 1 total probability:UserWarning"

\* The warning marks with the MixUp test matching CutMix too.
WarningMarks_loose(alg_cls) ==
       (IF alg_cls = SWA THEN <<FilterWarnings(SWAWarning)>> ELSE <<>>)
    \o (IF alg_cls \in {MixUp, CutMix} THEN <<FilterWarnings(MixUpWarning)>> ELSE <<>>)

WarningMarks(alg_cls) ==
       (IF alg_cls = SWA THEN <<FilterWarnings(SWAWarning)>> ELSE <<>>)
    \o (IF alg_cls = MixUp THEN <<FilterWarnings(MixUpWarning)>> ELSE <<>>)

\* The xfail mark never appended.
XfailMarks_never(alg_cls, settings) == <<>>

XfailMarks(alg_cls, settings) ==
    IF settings = None THEN <<Xfail(alg_cls)>> ELSE <<>>

Param(alg_cls, marks) ==
    [values |-> <<alg_cls>>, marks |-> marks, id |-> ClassName(alg_cls)]

\* One iteration of the loop: what it raises, or the param it appends.
LoopBody(alg_cls) ==
    IF alg_cls \notin DOMAIN _settings
    THEN [raised |-> KeyError(alg_cls), param |-> None]
    ELSE LET settings == _settings[alg_cls]
             skip == IF NeedsTorchVersion(alg_cls)
                     THEN ImportOrSkip(torch, MinTorchVersion)
                     ELSE NoException
         IN  IF skip # NoException
             THEN [raised |-> skip, param |-> None]
             ELSE [raised |-> NoException,
                   param  |-> Some(Param(alg_cls,
                                WarningMarks(alg_cls) \o XfailMarks(alg_cls, settings)))]

RECURSIVE MarksLoop(_, _)
MarksLoop(i, ans) ==
    IF i > Len(registry)
    THEN [NoResult EXCEPT !.params = ans]
    ELSE LET step == LoopBody(registry[i])
         IN  IF step.raised # NoException
             THEN Raise(step.raised)
             ELSE MarksLoop(i + 1, Append(ans, step.param[1]))

get_algs_with_marks == MarksLoop(1, <<>>)

\* common.get_module_subclasses(composer.algorithms, Algorithm): the live
\* subclasses, each once, in some order.
Registries == {ImportedAlgorithms, Append(ImportedAlgorithms, UnlistedAlgorithm)} \cup
    {s \in UNION {[1..n -> Classes] : n \in 0..MaxRegistry} :
        \A i, j \in 1..Len(s) : i # j => s[i] # s[j]}

(***************************************************************************)
(* Actions: one per call into the module                                   *)
(***************************************************************************)
\* The registries a session of lookups is run against.
SessionRegistries == {ImportedAlgorithms, Append(ImportedAlgorithms, UnlistedAlgorithm)}

InitRegistry(registries) ==
    /\ _settings = SettingsTable
    /\ registry \in registries
    /\ torch \in TorchVersions
    /\ call = NoCall
    /\ result = NoResult
    /\ reads = {}
    /\ heap = 0

\* _get_alg_settings filling in a None entry for a class it does not know
\* (a setdefault in place of the membership test).
GetAlgSettings_setdefault ==
    \E alg_cls \in Classes :
        /\ call' = LookupCall("_get_alg_settings", alg_cls)
        /\ result' = _get_alg_settings(alg_cls)
        /\ reads' = {}
        /\ _settings' = IF alg_cls \in DOMAIN _settings THEN _settings
                        ELSE _settings @@ (alg_cls :> None)
        /\ UNCHANGED <<registry, torch, heap, mnist, et>>

GetAlgSettings ==
    \E alg_cls \in Classes :
        /\ call' = LookupCall("_get_alg_settings", alg_cls)
        /\ result' = _get_alg_settings(alg_cls)
        /\ reads' = {}
        /\ UNCHANGED <<_settings, registry, torch, heap, mnist, et>>

GetAlgKwargs ==
    \E alg_cls \in Classes :
        LET out == get_alg_kwargs(alg_cls)
        IN  /\ call' = LookupCall("get_alg_kwargs", alg_cls)
            /\ result' = out.res
            /\ reads' = out.reads
            /\ UNCHANGED <<_settings, registry, torch, heap, mnist, et>>

GetAlgModel ==
    \E alg_cls \in Classes :
        LET out == get_alg_model(alg_cls)
        IN  /\ heap < MaxInstances
            /\ call' = LookupCall("get_alg_model", alg_cls)
            /\ result' = out.res
            /\ reads' = out.reads
            /\ heap' = IF out.res.instance # None THEN heap + 1 ELSE heap
            /\ UNCHANGED <<_settings, registry, torch, mnist, et>>

GetAlgDataset ==
    \E alg_cls \in Classes :
        LET out == get_alg_dataset(alg_cls)
        IN  /\ heap < MaxInstances
            /\ call' = LookupCall("get_alg_dataset", alg_cls)
            /\ result' = out.res
            /\ reads' = out.reads
            /\ heap' = IF out.res.instance # None THEN heap + 1 ELSE heap
            /\ UNCHANGED <<_settings, registry, torch, mnist, et>>

GetAlgsWithMarks ==
    /\ call' = [NoCall EXCEPT !.op = "get_algs_with_marks"]
    /\ result' = get_algs_with_marks
    /\ reads' = {}
    /\ UNCHANGED <<_settings, registry, torch, heap, mnist, et>>

(***************************************************************************)
(* MNISTDatasetHparams.initialize_object                                   *)
(***************************************************************************)
\* The hparams object: its own field (download) and the inherited ones.
MNISTDatasetHparams ==
    [ use_synthetic : BOOLEAN,
      is_train      : BOOLEAN,
      datadir       : {None, Some("/datasets/mnist")},
      download      : BOOLEAN,
      drop_last     : BOOLEAN,
      shuffle       : BOOLEAN,
      synthetic_num_unique_samples : {100},
      synthetic_device             : {"cpu"},
      synthetic_memory_format      : {"contiguous_format"} ]

NoMnistCall ==
    [ called |-> FALSE, self |-> None, batch_size |-> 0, on_disk |-> FALSE,
      trace |-> <<>>, raised |-> "none", downloaded |-> FALSE,
      dataset |-> None, sampler |-> None, loader |-> None ]

SyntheticBatchPairDataset(self) ==
    [ cls                |-> "SyntheticBatchPairDataset",
      total_dataset_size |-> IF self.is_train THEN 60000 ELSE 10000,
      data_shape         |-> <<1, 28, 28>>,
      num_classes        |-> 10,
      num_unique_samples_to_create |-> self.synthetic_num_unique_samples,
      device             |-> self.synthetic_device,
      memory_format      |-> self.synthetic_memory_format ]

MNISTDataset(self) ==
    [ cls       |-> "datasets.MNIST",
      root      |-> self.datadir[1],
      train     |-> self.is_train,
      download  |-> self.download,
      transform |-> <<"ToTensor">> ]

\* dist.get_sampler and dataloader_hparams.initialize_object, run on `dataset`.
SamplerAndLoader(start, self, batch_size, dataset) ==
    LET sampler == [ dataset |-> dataset, drop_last |-> self.drop_last,
                     shuffle |-> self.shuffle ]
    IN  [ start EXCEPT
            !.trace   = start.trace \o <<"dist.get_sampler", "DataLoaderHparams.initialize_object">>,
            !.dataset = Some(dataset),
            !.sampler = Some(sampler),
            !.loader  = Some([ dataset    |-> dataset,
                               batch_size |-> batch_size,
                               sampler    |-> sampler,
                               drop_last  |-> self.drop_last ]) ]

\* The real-data branch: datadir check, transform, datasets.MNIST (which
\* downloads when asked and needed, and raises when the files are absent).
RealBranch(start, self, batch_size, on_disk) ==
    IF self.datadir = None
    THEN [start EXCEPT !.raised = "ValueError"]
    ELSE LET made == [start EXCEPT !.trace = <<"transforms.Compose", "datasets.MNIST">>]
         IN  IF ~on_disk /\ ~self.download
             THEN [made EXCEPT !.raised = "RuntimeError"]
             ELSE SamplerAndLoader([made EXCEPT !.downloaded = ~on_disk],
                                   self, batch_size, MNISTDataset(self))

\* initialize_object with the datadir check hoisted above the branch.
initialize_object_datadir_first(self, batch_size, on_disk) ==
    LET start == [NoMnistCall EXCEPT !.called = TRUE, !.self = Some(self),
                                     !.batch_size = batch_size, !.on_disk = on_disk]
    IN  IF self.datadir = None
        THEN [start EXCEPT !.raised = "ValueError"]
        ELSE IF self.use_synthetic
        THEN SamplerAndLoader([start EXCEPT !.trace = <<"SyntheticBatchPairDataset">>],
                              self, batch_size, SyntheticBatchPairDataset(self))
        ELSE RealBranch(start, self, batch_size, on_disk)

\* initialize_object with the sampler built with drop_last left at False.
initialize_object_sampler_keeps_last(self, batch_size, on_disk) ==
    LET start == [NoMnistCall EXCEPT !.called = TRUE, !.self = Some(self),
                                     !.batch_size = batch_size, !.on_disk = on_disk]
        out == IF self.use_synthetic
               THEN SamplerAndLoader([start EXCEPT !.trace = <<"SyntheticBatchPairDataset">>],
                                     self, batch_size, SyntheticBatchPairDataset(self))
               ELSE RealBranch(start, self, batch_size, on_disk)
    IN  IF out.sampler = None THEN out
        ELSE [out EXCEPT !.sampler = Some([out.sampler[1] EXCEPT !.drop_last = FALSE])]

initialize_object(self, batch_size, on_disk) ==
    LET start == [NoMnistCall EXCEPT !.called = TRUE, !.self = Some(self),
                                     !.batch_size = batch_size, !.on_disk = on_disk]
    IN  IF self.use_synthetic
        THEN SamplerAndLoader([start EXCEPT !.trace = <<"SyntheticBatchPairDataset">>],
                              self, batch_size, SyntheticBatchPairDataset(self))
        ELSE RealBranch(start, self, batch_size, on_disk)

InitializeObject ==
    \E self \in MNISTDatasetHparams, batch_size \in 1..MaxBatch, on_disk \in BOOLEAN :
        /\ mnist' = initialize_object(self, batch_size, on_disk)
        /\ UNCHANGED <<regvars, et>>

(***************************************************************************)
(* ensure_tuple (composer.utils), as test_iter_helpers.py drives it        *)
(***************************************************************************)
\* A Python value: its type, its elements (or characters, or dict values)
\* and, for a dict, its keys in insertion order.
PyVal(type, keys, items) == [type |-> type, keys |-> keys, items |-> items]
PyNone == PyVal("NoneType", <<>>, <<>>)
PyInt(n) == PyVal("int", <<>>, <<n>>)

Elems == 0..MaxElem
ItemSeqs == UNION {[1..n -> Elems] : n \in 0..MaxLen}
DictKeys == <<"t", "e", "s", "x", "y">>
TextTypes == {"str", "bytes", "bytearray"}
SeqTypes == {"tuple", "list"}
ArrayTypes == {"Tensor", "ndarray"}

EnsureTupleInputs ==
    {PyNone}
    \cup {PyVal(t, <<>>, s) : t \in TextTypes \cup SeqTypes \cup ArrayTypes, s \in ItemSeqs}
    \cup {PyVal("range", <<>>, [i \in 1..n |-> i - 1]) : n \in 0..(MaxLen + 1)}
    \cup {PyVal("dict", SubSeq(DictKeys, 1, Len(s)), s) : s \in ItemSeqs}

\* isinstance(x, collections.abc.Sequence)
IsSequence(x) == x.type \in {"str", "bytes", "bytearray", "tuple", "list", "range"}

\* tuple(x) of a sequence: its elements in order.
Elements(x) == [i \in 1..Len(x.items) |-> PyInt(x.items[i])]

\* tuple(x.values()) of a dict: its values in insertion order of the keys.
Values(x) == [i \in 1..Len(x.keys) |-> PyInt(x.items[i])]

\* ensure_tuple with the string test after the sequence test.
ensure_tuple_splits_text(x) ==
    IF x = PyNone THEN <<>>
    ELSE IF IsSequence(x) THEN Elements(x)
    ELSE IF x.type \in TextTypes THEN <<x>>
    ELSE IF x.type = "dict" THEN Values(x)
    ELSE <<x>>

ensure_tuple(x) ==
    IF x = PyNone THEN <<>>
    ELSE IF x.type \in TextTypes THEN <<x>>
    ELSE IF IsSequence(x) THEN Elements(x)
    ELSE IF x.type = "dict" THEN Values(x)
    ELSE <<x>>

NoTupleCall == [called |-> FALSE, x |-> PyNone, out |-> <<>>]

EnsureTuple ==
    \E x \in EnsureTupleInputs :
        /\ et' = [called |-> TRUE, x |-> x, out |-> ensure_tuple(x)]
        /\ UNCHANGED <<regvars, mnist>>

(***************************************************************************)
(* Specifications                                                          *)
(***************************************************************************)
vars == <<regvars, mnist, et>>

Init ==
    /\ InitRegistry(SessionRegistries)
    /\ mnist = NoMnistCall
    /\ et = NoTupleCall

Next ==
    \/ GetAlgSettings
    \/ GetAlgKwargs
    \/ GetAlgModel
    \/ GetAlgDataset
    \/ GetAlgsWithMarks

\* A session of calls into the settings module, in any order.
Spec == Init /\ [][Next]_vars

\* Parametrisation: get_algs_with_marks against every enumerated registry.
InitMarks ==
    /\ InitRegistry(Registries)
    /\ mnist = NoMnistCall
    /\ et = NoTupleCall

NextMarks == GetAlgsWithMarks

SpecMarks == InitMarks /\ [][NextMarks]_vars

\* Calls of MNISTDatasetHparams.initialize_object.
InitMNIST ==
    /\ InitRegistry({ImportedAlgorithms})
    /\ torch = MinTorchVersion
    /\ mnist = NoMnistCall
    /\ et = NoTupleCall

NextMNIST == InitializeObject

SpecMNIST == InitMNIST /\ [][NextMNIST]_vars

\* Calls of ensure_tuple.
InitTuple == InitMNIST

NextTuple == EnsureTuple

SpecTuple == InitTuple /\ [][NextTuple]_vars

(***************************************************************************)
(* Properties of the lookups                                               *)
(***************************************************************************)
\* A class has no usable settings: no entry in the table, or a None entry.
MissingSettings(alg_cls) ==
    alg_cls \notin DOMAIN SettingsTable \/ SettingsTable[alg_cls] = None

\* C1: _get_alg_settings(C) raises ValueError when C is not a key of the table
\* or its entry is None, and otherwise returns exactly the stored record, never
\* None; get_alg_kwargs(C) returns that record's 'kwargs' entry and raises the
\* same ValueError in the two failing cases.
C1_LookupContract ==
    /\ call.op = "_get_alg_settings" =>
         LET alg_cls == call.alg[1]
         IN  IF MissingSettings(alg_cls)
             THEN result = Raise(ValueError(alg_cls))
             ELSE /\ result.raised = NoException
                  /\ result.settings = SettingsTable[alg_cls]
                  /\ result.settings # None
    /\ call.op = "get_alg_kwargs" =>
         LET alg_cls == call.alg[1]
         IN  IF MissingSettings(alg_cls)
             THEN result = Raise(ValueError(alg_cls))
             ELSE /\ result.raised = NoException
                  /\ result.kwargs = Some(SettingsTable[alg_cls][1].kwargs)

\* A lookup of a class whose entry is None has raised ValueError.
C1_Witness ==
    /\ call = LookupCall("_get_alg_settings", Alibi)
    /\ result.raised.type = "ValueError"
    /\ result.settings = None

(***************************************************************************)
(* Properties of get_algs_with_marks                                       *)
(***************************************************************************)
MarksCalled == call.op = "get_algs_with_marks"
MarksReturned == MarksCalled /\ result.raised = NoException

HasMark(param, name) == \E k \in 1..Len(param.marks) : param.marks[k].name = name
MarksNamed(param, name) == {k \in 1..Len(param.marks) : param.marks[k].name = name}

\* The version requirement cuts the enumeration short.
VersionSkipApplies ==
    /\ VersionLess(torch, MinTorchVersion)
    /\ \E i \in 1..Len(registry) : NeedsTorchVersion(registry[i])

AllListed == \A i \in 1..Len(registry) : registry[i] \in DOMAIN SettingsTable

\* C2: for every discovered subclass whose settings are missing (a None entry,
\* or no entry at all) the returned list contains a param for that class
\* carrying an xfail mark, and for every discovered subclass with a record the
\* param carries no xfail mark (in runs the torch version skip does not end).
C2_XfailForMissing ==
    (MarksCalled /\ ~VersionSkipApplies) =>
        /\ result.raised = NoException
        /\ \A i \in 1..Len(registry) :
              \E k \in 1..Len(result.params) :
                 /\ result.params[k].values = <<registry[i]>>
                 /\ HasMark(result.params[k], "xfail") <=> MissingSettings(registry[i])

\* C3: for each param returned, the param carries no xfail mark if and only
\* if get_alg_kwargs, get_alg_model and get_alg_dataset on its class all succeed
\* without ValueError; a class whose param is marked xfail makes each of the
\* three lookups raise ValueError.
C3_XfailIffLookupsFail ==
    MarksReturned =>
        \A k \in 1..Len(result.params) :
            LET param == result.params[k]
                alg_cls == param.values[1]
                outcomes == { get_alg_kwargs(alg_cls).res.raised,
                              get_alg_model(alg_cls).res.raised,
                              get_alg_dataset(alg_cls).res.raised }
            IN  /\ ~HasMark(param, "xfail") <=> outcomes = {NoException}
                /\ HasMark(param, "xfail") => outcomes = {ValueError(alg_cls)}

\* A returned list with one xfail param (a None entry) and one without.
C3_Witness ==
    /\ MarksReturned
    /\ registry = <<AGC, SeqLengthWarmup>>
    /\ ~HasMark(result.params[1], "xfail")
    /\ HasMark(result.params[2], "xfail")

\* C4: when the torch version requirement is not met, get_algs_with_marks
\* still returns one param for every discovered subclass other than CutMix,
\* MixUp and LabelSmoothing, in discovery order (registries the table lists).
C4_SkipOnlyTheThree ==
    (MarksCalled /\ VersionLess(torch, MinTorchVersion) /\ AllListed) =>
        /\ result.raised = NoException
        /\ LET others == SelectSeq(registry, LAMBDA c : ~NeedsTorchVersion(c))
           IN  /\ Len(result.params) = Len(others)
               /\ \A k \in 1..Len(others) : result.params[k].values = <<others[k]>>

\* C5: when get_algs_with_marks completes it returns exactly one param per
\* discovered subclass, in discovery order, with id equal to the class name;
\* the param for SWA carries exactly one filterwarnings mark (lr_scheduler.step
\* before optimizer.step), the param for MixUp exactly one (targets with less
\* than 1 total probability), and no other param carries a filterwarnings mark.
C5_OneParamPerClass ==
    MarksReturned =>
        /\ Len(result.params) = Len(registry)
        /\ \A i \in 1..Len(registry) :
              LET param == result.params[i]
                  alg_cls == registry[i]
                  filters == MarksNamed(param, "filterwarnings")
              IN  /\ param.values = <<alg_cls>>
                  /\ param.id = alg_cls.name
                  /\ alg_cls = SWA =>
                        /\ Cardinality(filters) = 1
                        /\ \A k \in filters : param.marks[k].args = <<SWAWarning>>
                  /\ alg_cls = MixUp =>
                        /\ Cardinality(filters) = 1
                        /\ \A k \in filters : param.marks[k].args = <<MixUpWarning>>
                  /\ alg_cls \notin {SWA, MixUp} => filters = {}

\* A completed enumeration that discovered MixUp and then SWA.
C5_Witness ==
    /\ MarksReturned
    /\ registry = <<MixUp, SWA>>
    /\ Len(result.params) = 2
    /\ HasMark(result.params[1], "filterwarnings")
    /\ HasMark(result.params[2], "filterwarnings")

(***************************************************************************)
(* Properties of MNISTDatasetHparams.initialize_object                     *)
(***************************************************************************)
MnistSelf == mnist.self[1]
MnistReturned == mnist.called /\ mnist.raised = "none"

\* C6: initialize_object raises ValueError when use_synthetic is false and
\* datadir is None, before any dataset, sampler or dataloader is constructed;
\* when use_synthetic is true it never requires datadir and never constructs
\* datasets.MNIST or downloads, whatever datadir and download are.
C6_DatadirRequiredOnlyForReal ==
    mnist.called =>
        /\ (~MnistSelf.use_synthetic /\ MnistSelf.datadir = None) =>
              /\ mnist.raised = "ValueError"
              /\ mnist.trace = <<>>
              /\ mnist.dataset = None /\ mnist.sampler = None /\ mnist.loader = None
        /\ MnistSelf.use_synthetic =>
              /\ mnist.raised = "none"
              /\ \A k \in 1..Len(mnist.trace) : mnist.trace[k] # "datasets.MNIST"
              /\ ~mnist.downloaded
              /\ mnist.dataset[1].cls = "SyntheticBatchPairDataset"

\* A real-data call without datadir has raised.
C6_Witness ==
    /\ mnist.called
    /\ ~MnistSelf.use_synthetic /\ MnistSelf.datadir = None /\ MnistSelf.download
    /\ mnist.raised = "ValueError"

\* C9: on every successful call the steps run in the order dataset, sampler,
\* dataloader; the sampler and the dataloader receive the same drop_last and
\* the same dataset, the caller's batch_size is passed through unchanged, and
\* the synthetic dataset has total size 60000 when is_train and 10000
\* otherwise, data shape [1, 28, 28] and 10 classes.
C9_OrderAndPassThrough ==
    MnistReturned =>
        LET n == Len(mnist.trace)
            dataset == mnist.dataset[1]
            sampler == mnist.sampler[1]
            loader == mnist.loader[1]
        IN  /\ n >= 3
            /\ mnist.trace[n - 2] = dataset.cls
            /\ mnist.trace[n - 1] = "dist.get_sampler"
            /\ mnist.trace[n] = "DataLoaderHparams.initialize_object"
            /\ sampler.dataset = dataset /\ loader.dataset = dataset
            /\ loader.sampler = sampler
            /\ sampler.drop_last = MnistSelf.drop_last
            /\ loader.drop_last = sampler.drop_last
            /\ loader.batch_size = mnist.batch_size
            /\ MnistSelf.use_synthetic =>
                  /\ dataset.total_dataset_size =
                        (IF MnistSelf.is_train THEN 60000 ELSE 10000)
                  /\ dataset.data_shape = <<1, 28, 28>>
                  /\ dataset.num_classes = 10

\* A successful synthetic training call that drops the last batch.
C9_Witness ==
    /\ MnistReturned
    /\ MnistSelf.use_synthetic /\ MnistSelf.is_train /\ MnistSelf.drop_last
    /\ mnist.batch_size = MaxBatch
    /\ mnist.loader[1].dataset.total_dataset_size = 60000

(***************************************************************************)
(* Properties of ensure_tuple                                              *)
(***************************************************************************)
\* C7: ensure_tuple is a total case analysis: None gives the empty tuple; a
\* str, bytes or bytearray gives (x,) and is not split into characters; a
\* tuple, list or range gives the tuple of its elements in order; a dict gives
\* the tuple of its values in insertion order; any other object gives (x,).
C7_EnsureTupleCases ==
    et.called =>
        LET x == et.x
            type == x.type
        IN  /\ type = "NoneType" => et.out = <<>>
            /\ type \in {"str", "bytes", "bytearray"} => et.out = <<x>>
            /\ type \in {"tuple", "list", "range", "dict"} =>
                  /\ Len(et.out) = Len(x.items)
                  /\ \A i \in 1..Len(x.items) : et.out[i] = PyInt(x.items[i])
            /\ type \in {"Tensor", "ndarray"} => et.out = <<x>>

\* A two-character str came back whole.
C7_Witness ==
    /\ et.called
    /\ et.x.type = "str" /\ Len(et.x.items) = 2
    /\ et.out = <<et.x>>

(***************************************************************************)
(* Properties of get_alg_model / get_alg_dataset and of the table          *)
(***************************************************************************)
\* What a lookup of `key` on the class of the last call constructs.
Built(key) ==
    LET entry == SettingsTable[call.alg[1]][1][key]
    IN  /\ result.raised = NoException
        /\ result.instance # None
        /\ result.instance[1].cls = entry.cls
        /\ result.instance[1].kwargs = (IF entry.is_tuple THEN entry.kwargs ELSE {})
        /\ reads = {key}

\* C8: for every class with a non-null record, get_alg_model and
\* get_alg_dataset construct a fresh instance on every call from the 'model'
\* (resp. 'dataset') entry: a (factory, kwargs) tuple is called as
\* factory(**kwargs), a bare factory with no arguments; the model lookup never
\* reads 'dataset' and the dataset lookup never reads 'model'.
C8_FreshNormalisedInstance ==
    /\ [](  /\ (call.op = "get_alg_model" /\ ~MissingSettings(call.alg[1])) => Built("model")
            /\ (call.op = "get_alg_dataset" /\ ~MissingSettings(call.alg[1])) => Built("dataset") )
    /\ [][ (call'.op \in {"get_alg_model", "get_alg_dataset"} /\ result'.instance # None) =>
              /\ result'.instance[1].id > heap
              /\ heap' = result'.instance[1].id ]_vars

\* A model built from a (factory, kwargs) tuple, after an earlier instance.
C8_Witness ==
    /\ call = LookupCall("get_alg_model", StochasticDepth)
    /\ result.instance # None
    /\ result.instance[1].cls = "ComposerResNet"
    /\ <<"model_name", "resnet50">> \in result.instance[1].kwargs
    /\ result.instance[1].id = 2

\* C10: after any sequence of calls to the five functions, whether they
\* succeed or raise, the _settings table is unchanged, so each lookup on a
\* class gives the same outcome regardless of which calls preceded it.
C10_TableUnchanged ==
    /\ [](_settings = SettingsTable)
    /\ [][ /\ _settings' = _settings
           /\ \A alg_cls \in Classes :
                 /\ _get_alg_settings(alg_cls)' = _get_alg_settings(alg_cls)
                 /\ get_alg_kwargs(alg_cls)' = get_alg_kwargs(alg_cls) ]_vars

\* A raising lookup made after an instance was built; the table is as constructed.
C10_Witness ==
    /\ call = LookupCall("get_alg_dataset", UnlistedAlgorithm)
    /\ result.raised.type = "ValueError"
    /\ heap = 1
    /\ DOMAIN _settings = DOMAIN SettingsTable

====
